---- MODULE Spec2Model ----
(***************************************************************************)
(* A model of samber/go-safe-csv-writer: SafeWriter (a fork of Go's        *)
(* encoding/csv Writer with a per-field sanitizer) on top of bufio.Writer  *)
(* and an io.Writer sink.                                                  *)
(*                                                                         *)
(* Strings are sequences of bytes (0..255), runes are integers.  Inputs    *)
(* are drawn as sequences of code points and UTF-8 encoded, so every field *)
(* is valid UTF-8, as the code's callers pass it.                          *)
(***************************************************************************)
EXTENDS Integers, Sequences, FiniteSets, TLC

VARIABLES
    Comma,      \* SafeWriter.Comma: the field delimiter, a rune
    UseCRLF,    \* SafeWriter.UseCRLF
    opts,       \* SafeWriter.opts: the SafetyOpts given to NewSafeWriter
    buf,        \* bufio.Writer: the bytes buffered and not yet handed to the sink
    werr,       \* bufio.Writer: its sticky error ("nil" when none)
    sink,       \* the bytes the underlying io.Writer has accepted
    sinkCap,    \* the sink accepts this many bytes, then fails (-1: never fails)
    sinkIsStringWriter, \* the sink also implements io.StringWriter (strings.Builder does)
    sinkFailed, \* the sink's own record: one of its Write calls returned an error
    pending,    \* the records the caller has yet to pass to Write / WriteAll
    want,       \* the encodings of the records of the calls that returned nil, in call order
    last        \* the last call or assignment, its argument and the error it returned

vars ==
    <<Comma, UseCRLF, opts, buf, werr, sink, sinkCap, sinkIsStringWriter, sinkFailed,
      pending, want, last>>

----------------------------------------------------------------------------
(* Bytes and runes the code names.                                         *)

QUOTE == 34
CR == 13
LF == 10
SPACE == 32
EQUAL == 61
PLUS == 43
MINUS == 45
AT == 64
TAB == 9
BACKSLASH == 92
DOT == 46
DefaultComma == 44
RuneSelf == 128
RuneError == 65533
MaxRune == 1114111
SurrogateMin == 55296
SurrogateMax == 57343
UTFMax == 4
\* The buffer bufio.NewWriter allocates.
BufSize == 4096

----------------------------------------------------------------------------
(* Bounds of the model.                                                    *)

\* Longest field, in code points, of the generated encoding inputs.
MaxLen == 2
\* Most records the caller holds in the I/O specifications.
MaxRecords == 2
\* Largest finite capacity of the sink.
MaxCap == 6

----------------------------------------------------------------------------
(* Sequence helpers.                                                       *)

Min(a, b) == IF a < b THEN a ELSE b

Max(a, b) == IF a > b THEN a ELSE b

\* s[i:] of Go, i a 0-based offset.
Drop(s, i) == SubSeq(s, i + 1, Len(s))

\* s[:i] of Go.
Take(s, i) == SubSeq(s, 1, i)

\* strings.Repeat of one byte (SubSeq has TLC hold the sequence as a tuple).
Repeat(c, n) == SubSeq([i \in 1..n |-> c], 1, n)

RECURSIVE Flatten(_)
Flatten(ss) == IF ss = <<>> THEN <<>> ELSE Head(ss) \o Flatten(Tail(ss))

IsPrefix(p, s) == Len(p) <= Len(s) /\ SubSeq(s, 1, Len(p)) = p

\* strings.Contains on byte strings.
ContainsBytes(s, sub) ==
    \E i \in 0..(Len(s) - Len(sub)) : SubSeq(s, i + 1, i + Len(sub)) = sub

\* strings.IndexAny(s, chars) for ASCII chars: the 0-based offset of the first
\* byte of s in chars, -1 when there is none.
IndexAny(s, chars) ==
    IF \E i \in 1..Len(s) : s[i] \in chars
    THEN (CHOOSE i \in 1..Len(s) : s[i] \in chars /\ \A j \in 1..(i - 1) : s[j] \notin chars) - 1
    ELSE -1

----------------------------------------------------------------------------
(* unicode/utf8 and unicode, as the code uses them.                        *)

ValidRune(r) ==
    IF 0 <= r /\ r < SurrogateMin THEN TRUE
    ELSE IF SurrogateMax < r /\ r <= MaxRune THEN TRUE
    ELSE FALSE

\* utf8.EncodeRune / string(r): an invalid rune encodes as U+FFFD.
EncodeRune(r) ==
    IF 0 <= r /\ r < 128 THEN <<r>>
    ELSE IF 0 <= r /\ r < 2048 THEN <<192 + (r \div 64), 128 + (r % 64)>>
    ELSE IF ~ValidRune(r) THEN <<239, 191, 189>>
    ELSE IF r < 65536 THEN <<224 + (r \div 4096), 128 + ((r \div 64) % 64), 128 + (r % 64)>>
    ELSE <<240 + (r \div 262144), 128 + ((r \div 4096) % 64),
           128 + ((r \div 64) % 64), 128 + (r % 64)>>

IsCont(b) == 128 <= b /\ b <= 191

\* utf8.DecodeRuneInString: the first rune of s, U+FFFD for an empty or
\* ill-formed start.
DecodeRuneInString(s) ==
    IF Len(s) = 0 THEN RuneError
    ELSE IF s[1] < 128 THEN s[1]
    ELSE IF 194 <= s[1] /\ s[1] <= 223
    THEN IF Len(s) >= 2 /\ IsCont(s[2])
         THEN (s[1] % 32) * 64 + (s[2] % 64)
         ELSE RuneError
    ELSE IF 224 <= s[1] /\ s[1] <= 239
    THEN IF /\ Len(s) >= 3
            /\ IsCont(s[2]) /\ IsCont(s[3])
            /\ (s[1] = 224 => s[2] >= 160)
            /\ (s[1] = 237 => s[2] <= 159)
         THEN (s[1] % 16) * 4096 + (s[2] % 64) * 64 + (s[3] % 64)
         ELSE RuneError
    ELSE IF 240 <= s[1] /\ s[1] <= 244
    THEN IF /\ Len(s) >= 4
            /\ IsCont(s[2]) /\ IsCont(s[3]) /\ IsCont(s[4])
            /\ (s[1] = 240 => s[2] >= 144)
            /\ (s[1] = 244 => s[2] <= 143)
         THEN (s[1] % 8) * 262144 + (s[2] % 64) * 4096 + (s[3] % 64) * 64 + (s[4] % 64)
         ELSE RuneError
    ELSE RuneError

\* unicode.IsSpace: the White_Space property.
IsSpace(r) ==
    \/ r \in {9, 10, 11, 12, 13, 32, 133, 160, 5760}
    \/ (8192 <= r /\ r <= 8202)
    \/ r \in {8232, 8233, 8239, 8287, 12288}

\* byte(r): the low eight bits of a rune.
ByteOf(r) == r % 256

----------------------------------------------------------------------------
(* SafetyOpts.                                                             *)

SafetyOpts ==
    [ForceDoubleQuotes : BOOLEAN, EscapeCharEqual : BOOLEAN, EscapeCharPlus : BOOLEAN,
     EscapeCharMinus : BOOLEAN, EscapeCharAt : BOOLEAN, EscapeCharTab : BOOLEAN,
     EscapeCharCR : BOOLEAN]

FullSafety ==
    [ForceDoubleQuotes |-> TRUE, EscapeCharEqual |-> TRUE, EscapeCharPlus |-> TRUE,
     EscapeCharMinus |-> TRUE, EscapeCharAt |-> TRUE, EscapeCharTab |-> TRUE,
     EscapeCharCR |-> TRUE]

EscapeAll ==
    [ForceDoubleQuotes |-> FALSE, EscapeCharEqual |-> TRUE, EscapeCharPlus |-> TRUE,
     EscapeCharMinus |-> TRUE, EscapeCharAt |-> TRUE, EscapeCharTab |-> TRUE,
     EscapeCharCR |-> TRUE]

\* SafetyOpts{}: every switch off.
NoOpts ==
    [ForceDoubleQuotes |-> FALSE, EscapeCharEqual |-> FALSE, EscapeCharPlus |-> FALSE,
     EscapeCharMinus |-> FALSE, EscapeCharAt |-> FALSE, EscapeCharTab |-> FALSE,
     EscapeCharCR |-> FALSE]

----------------------------------------------------------------------------
(* The encoding engine of SafeWriter.Write.                                *)

\* validDelim without the test for U+FFFD.
validDelimNoRuneError(r) ==
    r # 0 /\ r # QUOTE /\ r # CR /\ r # LF /\ ValidRune(r)

validDelim(r) ==
    r # 0 /\ r # QUOTE /\ r # CR /\ r # LF /\ ValidRune(r) /\ r # RuneError

\* The switch with EscapeCharCR matching a carriage return, as its name says.
SanitizeCRByName(field, o) ==
    IF Len(field) > 0
    THEN CASE o.EscapeCharEqual /\ field[1] = EQUAL -> <<SPACE>> \o field
           [] o.EscapeCharPlus /\ field[1] = PLUS -> <<SPACE>> \o field
           [] o.EscapeCharMinus /\ field[1] = MINUS -> <<SPACE>> \o field
           [] o.EscapeCharAt /\ field[1] = AT -> <<SPACE>> \o field
           [] o.EscapeCharTab /\ field[1] = TAB -> <<SPACE>> \o field
           [] o.EscapeCharCR /\ field[1] = CR -> <<SPACE>> \o field
           [] OTHER -> field
    ELSE field

\* The switch of Write: the field, with one space in front when the switch of
\* its first byte is on.
Sanitize(field, o) ==
    IF Len(field) > 0
    THEN CASE o.EscapeCharEqual /\ field[1] = EQUAL -> <<SPACE>> \o field
           [] o.EscapeCharPlus /\ field[1] = PLUS -> <<SPACE>> \o field
           [] o.EscapeCharMinus /\ field[1] = MINUS -> <<SPACE>> \o field
           [] o.EscapeCharAt /\ field[1] = AT -> <<SPACE>> \o field
           [] o.EscapeCharTab /\ field[1] = TAB -> <<SPACE>> \o field
           [] o.EscapeCharCR /\ field[1] = LF -> <<SPACE>> \o field
           [] OTHER -> field
    ELSE field

\* fieldNeedsQuotes without the test of the first rune for white space.
fieldNeedsQuotesNoSpace(field, comma, o) ==
    IF field = <<>> THEN FALSE
    ELSE IF field = <<BACKSLASH, DOT>> THEN TRUE
    ELSE IF o.ForceDoubleQuotes THEN TRUE
    ELSE IF comma < RuneSelf
    THEN \E i \in 1..Len(field) : field[i] \in {LF, CR, QUOTE, ByteOf(comma)}
    ELSE \/ ContainsBytes(field, EncodeRune(comma))
         \/ \E i \in 1..Len(field) : field[i] \in {QUOTE, CR, LF}

\* fieldNeedsQuotes comparing a non-ASCII delimiter byte by byte, as the ASCII
\* branch does.
fieldNeedsQuotesByteComma(field, comma, o) ==
    IF field = <<>> THEN FALSE
    ELSE IF field = <<BACKSLASH, DOT>> THEN TRUE
    ELSE IF o.ForceDoubleQuotes THEN TRUE
    ELSE IF \E i \in 1..Len(field) : field[i] \in {LF, CR, QUOTE, ByteOf(comma)}
    THEN TRUE
    ELSE IsSpace(DecodeRuneInString(field))

\* fieldNeedsQuotes with ForceDoubleQuotes tested before the empty field.
fieldNeedsQuotesForceFirst(field, comma, o) ==
    IF o.ForceDoubleQuotes THEN TRUE
    ELSE IF field = <<>> THEN FALSE
    ELSE IF field = <<BACKSLASH, DOT>> THEN TRUE
    ELSE IF comma < RuneSelf
    THEN \/ \E i \in 1..Len(field) : field[i] \in {LF, CR, QUOTE, ByteOf(comma)}
         \/ IsSpace(DecodeRuneInString(field))
    ELSE \/ ContainsBytes(field, EncodeRune(comma))
         \/ \E i \in 1..Len(field) : field[i] \in {QUOTE, CR, LF}
         \/ IsSpace(DecodeRuneInString(field))

fieldNeedsQuotes(field, comma, o) ==
    IF field = <<>> THEN FALSE
    ELSE IF field = <<BACKSLASH, DOT>> THEN TRUE
    ELSE IF o.ForceDoubleQuotes THEN TRUE
    ELSE IF (IF comma < RuneSelf
             THEN \E i \in 1..Len(field) :
                    \/ field[i] = LF
                    \/ field[i] = CR
                    \/ field[i] = QUOTE
                    \/ field[i] = ByteOf(comma)
             ELSE \/ ContainsBytes(field, EncodeRune(comma))
                  \/ \E i \in 1..Len(field) : field[i] \in {QUOTE, CR, LF})
    THEN TRUE
    ELSE IsSpace(DecodeRuneInString(field))

\* The calls Write makes on its bufio.Writer, in order, each a record
\* [k |-> the method, d |-> the argument].
ByteOp(c) == [k |-> "WriteByte", d |-> <<c>>]

StringOp(s) == [k |-> "WriteString", d |-> s]

RuneOp(r) == [k |-> "WriteRune", d |-> <<r>>]

\* The loop of a quoted field with the carriage return written in both modes.
RECURSIVE QuotedOpsKeepCR(_, _)
QuotedOpsKeepCR(field, crlf) ==
    IF Len(field) = 0 THEN <<>>
    ELSE LET i0 == IndexAny(field, {QUOTE, CR, LF})
             i == IF i0 < 0 THEN Len(field) ELSE i0
             rest == Drop(field, i)
             special ==
                 IF Len(rest) > 0
                 THEN CASE rest[1] = QUOTE -> <<StringOp(<<QUOTE, QUOTE>>)>>
                        [] rest[1] = CR -> <<ByteOp(CR)>>
                        [] rest[1] = LF -> IF crlf THEN <<StringOp(<<CR, LF>>)>>
                                           ELSE <<ByteOp(LF)>>
                        [] OTHER -> <<>>
                 ELSE <<>>
         IN <<StringOp(Take(field, i))>> \o special
            \o (IF Len(rest) > 0 THEN QuotedOpsKeepCR(Drop(rest, 1), crlf) ELSE <<>>)

\* The loop `for len(field) > 0` of a quoted field.
RECURSIVE QuotedOps(_, _)
QuotedOps(field, crlf) ==
    IF Len(field) = 0 THEN <<>>
    ELSE LET i0 == IndexAny(field, {QUOTE, CR, LF})
             i == IF i0 < 0 THEN Len(field) ELSE i0
             rest == Drop(field, i)
             special ==
                 IF Len(rest) > 0
                 THEN CASE rest[1] = QUOTE -> <<StringOp(<<QUOTE, QUOTE>>)>>
                        [] rest[1] = CR -> IF ~crlf THEN <<ByteOp(CR)>> ELSE <<>>
                        [] rest[1] = LF -> IF crlf THEN <<StringOp(<<CR, LF>>)>>
                                           ELSE <<ByteOp(LF)>>
                        [] OTHER -> <<>>
                 ELSE <<>>
         IN <<StringOp(Take(field, i))>> \o special
            \o (IF Len(rest) > 0 THEN QuotedOps(Drop(rest, 1), crlf) ELSE <<>>)

\* The body of the loop over the record's fields, for field number n (0-based).
FieldOps(n, field0, comma, crlf, o) ==
    LET field == Sanitize(field0, o)
    IN (IF n > 0 THEN <<RuneOp(comma)>> ELSE <<>>)
       \o (IF ~fieldNeedsQuotes(field, comma, o)
           THEN <<StringOp(field)>>
           ELSE <<ByteOp(QUOTE)>> \o QuotedOps(field, crlf) \o <<ByteOp(QUOTE)>>)

LineEndOps(crlf) == IF crlf THEN <<StringOp(<<CR, LF>>)>> ELSE <<ByteOp(LF)>>

\* Every bufio call of Write(record) once the delimiter is valid, when none fails.
WriteOps(record, comma, crlf, o) ==
    Flatten([n \in 1..Len(record) |-> FieldOps(n - 1, record[n], comma, crlf, o)])
    \o LineEndOps(crlf)

\* The bytes of one bufio call.
OpBytes(op) == IF op.k = "WriteRune" THEN EncodeRune(op.d[1]) ELSE op.d

\* The bytes of a sequence of bufio calls.
RECURSIVE OpsBytes(_)
OpsBytes(ops) == IF ops = <<>> THEN <<>> ELSE OpBytes(Head(ops)) \o OpsBytes(Tail(ops))

\* The bytes Write(record) emits when no call fails.
Encode(record, comma, crlf, o) == OpsBytes(WriteOps(record, comma, crlf, o))

----------------------------------------------------------------------------
(* bufio.Writer over the sink.  A bufio state is a record                  *)
(* [buf, err, sink, failed]; the sink is a plain io.Writer that accepts    *)
(* sinkCap bytes in all and then fails, writing what still fits.           *)

Available(b) == BufSize - Len(b.buf)

\* How many bytes of p the sink's Write accepts.
SinkAccepts(b, p) ==
    IF sinkCap < 0 THEN Len(p) ELSE Min(Len(p), Max(0, sinkCap - Len(b.sink)))

\* bufio.Writer.Flush: hand the buffer to the sink; a failed or short write
\* keeps the rest buffered and latches the error.
BufFlush(b) ==
    IF b.err # "nil" THEN b
    ELSE IF Len(b.buf) = 0 THEN b
    ELSE LET n == SinkAccepts(b, b.buf)
         IN IF n < Len(b.buf)
            THEN [buf |-> Drop(b.buf, n), err |-> "io",
                  sink |-> b.sink \o Take(b.buf, n), failed |-> TRUE]
            ELSE [buf |-> <<>>, err |-> "nil",
                  sink |-> b.sink \o b.buf, failed |-> b.failed]

\* bufio.Writer.WriteByte.
BufWriteByte(b, c) ==
    IF b.err # "nil" THEN b
    ELSE IF Available(b) <= 0
    THEN LET f == BufFlush(b)
         IN IF f.err # "nil" THEN f ELSE [f EXCEPT !.buf = @ \o <<c>>]
    ELSE [b EXCEPT !.buf = @ \o <<c>>]

\* bufio.Writer.WriteString: while s does not fit, either forward it to the
\* sink at once (nothing buffered and the sink is an io.StringWriter; what the
\* sink does not take is dropped and the error latched), or fill the buffer and
\* flush; then buffer what is left.
RECURSIVE BufWriteString(_, _)
BufWriteString(b, s) ==
    IF Len(s) > Available(b) /\ b.err = "nil"
    THEN IF Len(b.buf) = 0 /\ sinkIsStringWriter
         THEN LET n == SinkAccepts(b, s)
              IN BufWriteString([buf |-> b.buf,
                                 err |-> IF n < Len(s) THEN "io" ELSE "nil",
                                 sink |-> b.sink \o Take(s, n),
                                 failed |-> b.failed \/ n < Len(s)],
                                Drop(s, n))
         ELSE LET n == Available(b)
              IN BufWriteString(BufFlush([b EXCEPT !.buf = @ \o Take(s, n)]), Drop(s, n))
    ELSE IF b.err # "nil" THEN b
    ELSE [b EXCEPT !.buf = @ \o s]

\* bufio.Writer.WriteRune.
BufWriteRune(b, r) ==
    IF 0 <= r /\ r < RuneSelf THEN BufWriteByte(b, ByteOf(r))
    ELSE IF b.err # "nil" THEN b
    ELSE IF Available(b) < UTFMax
    THEN LET f == BufFlush(b)
         IN IF f.err # "nil" THEN f
            ELSE IF Available(f) < UTFMax THEN BufWriteString(f, EncodeRune(r))
            ELSE [f EXCEPT !.buf = @ \o EncodeRune(r)]
    ELSE [b EXCEPT !.buf = @ \o EncodeRune(r)]

ApplyOp(b, op) ==
    CASE op.k = "WriteByte" -> BufWriteByte(b, op.d[1])
      [] op.k = "WriteString" -> BufWriteString(b, op.d)
      [] op.k = "WriteRune" -> BufWriteRune(b, op.d[1])

\* The calls of Write in order; the first one that returns an error ends Write
\* (`return err`), the later calls are not made.
RECURSIVE RunOps(_, _)
RunOps(ops, b) ==
    IF ops = <<>> THEN b
    ELSE LET b1 == ApplyOp(b, Head(ops))
         IN IF b1.err # "nil" THEN b1 ELSE RunOps(Tail(ops), b1)

----------------------------------------------------------------------------
(* The methods of SafeWriter, as functions of the writer's state.          *)

\* The bufio.Writer and its sink, as the state holds them.
Bufio == [buf |-> buf, err |-> werr, sink |-> sink, failed |-> sinkFailed]

\* SafeWriter.Write: [b |-> the bufio state after, err |-> the error returned].
Write(record, b) ==
    IF ~validDelim(Comma) THEN [b |-> b, err |-> "errInvalidDelim"]
    ELSE LET b1 == RunOps(WriteOps(record, Comma, UseCRLF, opts), b)
         IN [b |-> b1, err |-> b1.err]

\* SafeWriter.Flush: bufio's Flush, its result dropped.
Flush(b) == BufFlush(b)

\* Error that reports nothing.
ErrorAlwaysNil(b) == "nil"

\* SafeWriter.Error: w.w.Write(nil) copies nothing and returns bufio's error.
Error(b) == b.err

\* WriteAll that carries on after a failed Write and returns the Flush result.
RECURSIVE WriteAllNoStop(_, _)
WriteAllNoStop(records, b) ==
    IF records = <<>>
    THEN LET f == BufFlush(b) IN [b |-> f, err |-> f.err]
    ELSE WriteAllNoStop(Tail(records), Write(Head(records), b).b)

\* SafeWriter.WriteAll: Write record after record, return the first error;
\* after the last record return w.w.Flush().
RECURSIVE WriteAll(_, _)
WriteAll(records, b) ==
    IF records = <<>>
    THEN LET f == BufFlush(b) IN [b |-> f, err |-> f.err]
    ELSE LET r == Write(Head(records), b)
         IN IF r.err # "nil" THEN r ELSE WriteAll(Tail(records), r.b)

\* The encodings of the records, concatenated in order.
EncodeAll(records) ==
    Flatten([i \in 1..Len(records) |-> Encode(records[i], Comma, UseCRLF, opts)])

----------------------------------------------------------------------------
(* Inputs.                                                                 *)

\* The UTF-8 bytes of a sequence of code points.
Utf8(cs) == Flatten([i \in 1..Len(cs) |-> EncodeRune(cs[i])])

\* Sequences over S of length at most n.
SeqsUpTo(S, n) == UNION {[1..k -> S] : k \in 0..n}

\* Code points of the generated fields: the six guarded characters, the
\* characters that force quoting, a space, a plain letter, and two two-byte
\* code points (U+00A0 is white space, U+00E9 serves as a delimiter).
EncRunes ==
    {EQUAL, PLUS, MINUS, AT, TAB, LF, CR, QUOTE, DefaultComma, SPACE, 97, 160, 233}

\* The Postgres end-of-data marker `\.` and its neighbours.
MarkerFields ==
    {<<BACKSLASH, DOT>>, <<BACKSLASH>>, <<DOT>>, <<DOT, BACKSLASH>>,
     <<BACKSLASH, DOT, 97>>, <<EQUAL, BACKSLASH, DOT>>}

EncFields == {Utf8(cs) : cs \in SeqsUpTo(EncRunes, MaxLen)} \cup MarkerFields

ShortFields == {Utf8(cs) : cs \in SeqsUpTo(EncRunes, 1)}

\* ["userId", "=A1", "foo, bar"]
ExampleRecord ==
    << <<117, 115, 101, 114, 73, 100>>, <<61, 65, 49>>,
       <<102, 111, 111, 44, 32, 98, 97, 114>> >>

\* A field that starts with a carriage return followed by a formula: "\r=1+1"
CRFormulaRecord == << <<13, 61, 49, 43, 49>> >>

EncRecords ==
    {<<>>, ExampleRecord, CRFormulaRecord}
    \cup {<<f>> : f \in EncFields}
    \cup {<<f, g>> : f \in ShortFields, g \in ShortFields}

\* Valid delimiters of the encoding specification: ',', tab and U+00E9.
EncCommas == {DefaultComma, TAB, 233}

\* Policies of the encoding specification: every policy with none, one or all
\* six of the escape switches on, with and without ForceDoubleQuotes.
Switches(o) ==
    {s \in {"EscapeCharEqual", "EscapeCharPlus", "EscapeCharMinus", "EscapeCharAt",
            "EscapeCharTab", "EscapeCharCR"} : o[s]}

EncPolicies == {o \in SafetyOpts : Cardinality(Switches(o)) \in {0, 1, 6}}

\* Delimiters the caller may assign: valid ones and one of every rejected kind
\* (NUL, '"', CR, LF, U+FFFD, a surrogate, a value past U+10FFFF, a negative).
AllCommas ==
    {DefaultComma, 59, TAB, 124, 233, 0, QUOTE, CR, LF, RuneError, SurrogateMin,
     SurrogateMax, MaxRune, MaxRune + 1, -1}

\* Delimiters of the I/O specification.
IOCommas == {DefaultComma, 233, QUOTE}

\* Records of the delimiter specification: [], ["a"] and ["=", ""], of one,
\* two and three (six when sanitized) encoded bytes.
SmallRecords == {<<>>, << <<97>> >>, << <<EQUAL>>, <<>> >>}

\* A formula of BufSize - 2 bytes: written as it is and with its line feed it
\* leaves one byte of the buffer free; sanitized and quoted it fills the buffer
\* before its closing quote.
NearlyFull == <<EQUAL>> \o Repeat(97, BufSize - 3)

\* A formula longer than two buffers: one WriteString that does not fit an
\* empty buffer, and that still does not fit after the buffer was filled and
\* flushed once.
OverFull == <<EQUAL>> \o Repeat(97, BufSize + BufSize)

\* What the caller of the I/O specification holds: up to MaxRecords small
\* records; or one large record alone; or NearlyFull and then a small record,
\* which meets a buffer all but full; or a small record and then OverFull,
\* which meets a buffer that is not empty.
IOBatches ==
    SeqsUpTo(SmallRecords, MaxRecords)
    \cup {<<<<NearlyFull>>>>, <<<<OverFull>>>>}
    \cup {<<<<NearlyFull>>, s>> : s \in SmallRecords}
    \cup {<<s, <<OverFull>>>> : s \in SmallRecords}

\* Capacities of the sink: unlimited, a few bytes, and a little more than one
\* buffer.
SinkCaps == {-1, MaxCap, BufSize + MaxCap}

----------------------------------------------------------------------------
(* The state machine.                                                      *)

NoCall == [op |-> "New", err |-> "nil", recs |-> <<>>]

\* NewSafeWriter(w, opts): Comma ',', LF line ends, an empty buffer.
Init ==
    /\ Comma = DefaultComma
    /\ UseCRLF = FALSE
    /\ opts \in {EscapeAll, NoOpts}
    /\ buf = <<>>
    /\ werr = "nil"
    /\ sink = <<>>
    /\ sinkCap \in SinkCaps
    /\ sinkIsStringWriter \in BOOLEAN
    /\ sinkFailed = FALSE
    /\ pending \in IOBatches
    /\ want = <<>>
    /\ last = NoCall

\* w.Write(record) with the next record of the caller.  (The call is bound by
\* \E over a singleton, here and below, so that it is evaluated once.)
WriteStep ==
    /\ pending # <<>>
    /\ \E record \in {Head(pending)} : \E r \in {Write(record, Bufio)} :
          /\ buf' = r.b.buf
          /\ werr' = r.b.err
          /\ sink' = r.b.sink
          /\ sinkFailed' = r.b.failed
          /\ want' = IF r.err = "nil"
                     THEN want \o Encode(record, Comma, UseCRLF, opts)
                     ELSE want
          /\ last' = [op |-> "Write", err |-> r.err, recs |-> <<record>>]
    /\ pending' = Tail(pending)
    /\ UNCHANGED <<Comma, UseCRLF, opts, sinkCap, sinkIsStringWriter>>

\* w.Flush()
FlushStep ==
    /\ \E f \in {Flush(Bufio)} :
          /\ buf' = f.buf
          /\ werr' = f.err
          /\ sink' = f.sink
          /\ sinkFailed' = f.failed
    /\ last' = [op |-> "Flush", err |-> "nil", recs |-> <<>>]
    /\ UNCHANGED <<Comma, UseCRLF, opts, sinkCap, sinkIsStringWriter, pending, want>>

\* w.Error()
ErrorStep ==
    /\ last' = [op |-> "Error", err |-> Error(Bufio), recs |-> <<>>]
    /\ UNCHANGED <<Comma, UseCRLF, opts, buf, werr, sink, sinkCap, sinkIsStringWriter,
                     sinkFailed, pending, want>>

\* w.WriteAll(records) with the next k records of the caller.
WriteAllStep ==
    \E k \in 0..Len(pending) :
        \E records \in {Take(pending, k)} : \E r \in {WriteAll(records, Bufio)} :
           /\ buf' = r.b.buf
           /\ werr' = r.b.err
           /\ sink' = r.b.sink
           /\ sinkFailed' = r.b.failed
           /\ want' = IF r.err = "nil" THEN want \o EncodeAll(records) ELSE want
           /\ last' = [op |-> "WriteAll", err |-> r.err, recs |-> records]
           /\ pending' = Drop(pending, k)
           /\ UNCHANGED <<Comma, UseCRLF, opts, sinkCap, sinkIsStringWriter>>

\* w.Comma = c
SetComma ==
    \E c \in IOCommas :
        /\ c # Comma
        /\ Comma' = c
        /\ last' = [op |-> "Config", err |-> "nil", recs |-> <<>>]
        /\ UNCHANGED <<UseCRLF, opts, buf, werr, sink, sinkCap, sinkIsStringWriter,
                     sinkFailed, pending, want>>

\* w.UseCRLF = true / false
SetUseCRLF ==
    /\ UseCRLF' = ~UseCRLF
    /\ last' = [op |-> "Config", err |-> "nil", recs |-> <<>>]
    /\ UNCHANGED <<Comma, opts, buf, werr, sink, sinkCap, sinkIsStringWriter,
                     sinkFailed, pending, want>>

Next == WriteStep \/ FlushStep \/ ErrorStep \/ WriteAllStep \/ SetComma \/ SetUseCRLF

\* The writer under every sequence of calls, with a sink that may fail and may
\* be an io.StringWriter.
Spec == Init /\ [][Next]_vars

\* The delimiter check: any delimiter and either line end assigned at any time,
\* a sink that never fails.
InitDelim ==
    /\ Comma = DefaultComma
    /\ UseCRLF = FALSE
    /\ opts = EscapeAll
    /\ buf = <<>>
    /\ werr = "nil"
    /\ sink = <<>>
    /\ sinkCap = -1
    /\ sinkIsStringWriter = FALSE
    /\ sinkFailed = FALSE
    /\ pending \in SeqsUpTo(SmallRecords, MaxRecords + 1)
    /\ want = <<>>
    /\ last = NoCall

SetAnyComma ==
    \E c \in AllCommas :
        /\ c # Comma
        /\ Comma' = c
        /\ last' = [op |-> "Config", err |-> "nil", recs |-> <<>>]
        /\ UNCHANGED <<UseCRLF, opts, buf, werr, sink, sinkCap, sinkIsStringWriter,
                     sinkFailed, pending, want>>

NextDelim == WriteStep \/ SetAnyComma \/ SetUseCRLF

SpecDelim == InitDelim /\ [][NextDelim]_vars

\* The encoding engine as a function: one record, every policy, delimiter and
\* line-end mode of the input sets, a sink that never fails.
InitEnc ==
    /\ Comma \in EncCommas
    /\ UseCRLF \in BOOLEAN
    /\ opts \in EncPolicies
    /\ buf = <<>>
    /\ werr = "nil"
    /\ sink = <<>>
    /\ sinkCap = -1
    /\ sinkIsStringWriter = FALSE
    /\ sinkFailed = FALSE
    /\ \E rec \in EncRecords : pending = <<rec>>
    /\ want = <<>>
    /\ last = NoCall

NextEnc == WriteStep

SpecEnc == InitEnc /\ [][NextEnc]_vars

\* Every byte the writer has emitted: what reached the sink, then the buffer.
Stream == sink \o buf

----------------------------------------------------------------------------
(* What the specification says of the encoding, stated on its own terms.   *)

\* The guarded first characters and the switch of each.
GuardTable ==
    {<<EQUAL, "EscapeCharEqual">>, <<PLUS, "EscapeCharPlus">>, <<MINUS, "EscapeCharMinus">>,
     <<AT, "EscapeCharAt">>, <<TAB, "EscapeCharTab">>, <<LF, "EscapeCharCR">>}

FormulaStarts == {EQUAL, PLUS, MINUS, AT, TAB, LF}

\* The field starts with a guarded character whose switch is on.
Guarded(f, o) == Len(f) > 0 /\ \E g \in GuardTable : f[1] = g[1] /\ o[g[2]]

Prefixed(f, o) == IF Guarded(f, o) THEN <<SPACE>> \o f ELSE f

\* The quoting decision of section 4.3.
MustQuote(f, comma, o) ==
    /\ f # <<>>
    /\ \/ f = <<BACKSLASH, DOT>>
       \/ o.ForceDoubleQuotes
       \/ ContainsBytes(f, EncodeRune(comma))
       \/ \E i \in 1..Len(f) : f[i] \in {QUOTE, CR, LF}
       \/ IsSpace(DecodeRuneInString(f))

\* A quoted field's content, byte by byte (section 4.4).
Escaped(f, crlf) ==
    Flatten([i \in 1..Len(f) |->
        CASE f[i] = QUOTE -> <<QUOTE, QUOTE>>
          [] f[i] = CR -> IF crlf THEN <<>> ELSE <<CR>>
          [] f[i] = LF -> IF crlf THEN <<CR, LF>> ELSE <<LF>>
          [] OTHER -> <<f[i]>>])

LineEnd(crlf) == IF crlf THEN <<CR, LF>> ELSE <<LF>>

\* The field without its carriage returns.
WithoutCR(f) == Flatten([i \in 1..Len(f) |-> IF f[i] = CR THEN <<>> ELSE <<f[i]>>])

\* A CSV reader in the manner of RFC 4180 for the delimiter and line-end mode:
\* fields split at the delimiter, records at the line end, a field that opens
\* with '"' runs to its closing '"' with "" read as one '"', and, in CRLF
\* mode, a CR LF inside quotes read as a line feed.  A blank line is one
\* record of one empty field.  [ok, recs]; ok is FALSE on malformed input.
RECURSIVE ReadCSV(_, _, _, _, _, _, _)
ReadCSV(s, d, crlf, st, field, rec, out) ==
    LET eol == LineEnd(crlf)
    IN CASE st = "start" ->
              IF s = <<>>
              THEN [ok |-> TRUE, recs |-> IF rec = <<>> THEN out ELSE Append(out, Append(rec, <<>>))]
              ELSE IF s[1] = QUOTE THEN ReadCSV(Tail(s), d, crlf, "quoted", <<>>, rec, out)
              ELSE ReadCSV(s, d, crlf, "plain", <<>>, rec, out)
         [] st = "plain" ->
              IF s = <<>> THEN [ok |-> TRUE, recs |-> Append(out, Append(rec, field))]
              ELSE IF IsPrefix(d, s)
              THEN ReadCSV(Drop(s, Len(d)), d, crlf, "start", <<>>, Append(rec, field), out)
              ELSE IF IsPrefix(eol, s)
              THEN ReadCSV(Drop(s, Len(eol)), d, crlf, "start", <<>>, <<>>,
                           Append(out, Append(rec, field)))
              ELSE IF s[1] = QUOTE THEN [ok |-> FALSE, recs |-> out]
              ELSE ReadCSV(Tail(s), d, crlf, "plain", Append(field, s[1]), rec, out)
         [] st = "quoted" ->
              IF s = <<>> THEN [ok |-> FALSE, recs |-> out]
              ELSE IF s[1] = QUOTE
              THEN IF Len(s) >= 2 /\ s[2] = QUOTE
                   THEN ReadCSV(Drop(s, 2), d, crlf, "quoted", Append(field, QUOTE), rec, out)
                   ELSE ReadCSV(Tail(s), d, crlf, "closed", field, rec, out)
              ELSE IF crlf /\ IsPrefix(eol, s)
              THEN ReadCSV(Drop(s, 2), d, crlf, "quoted", Append(field, LF), rec, out)
              ELSE ReadCSV(Tail(s), d, crlf, "quoted", Append(field, s[1]), rec, out)
         [] st = "closed" ->
              IF s = <<>> THEN [ok |-> TRUE, recs |-> Append(out, Append(rec, field))]
              ELSE IF IsPrefix(d, s)
              THEN ReadCSV(Drop(s, Len(d)), d, crlf, "start", <<>>, Append(rec, field), out)
              ELSE IF IsPrefix(eol, s)
              THEN ReadCSV(Drop(s, Len(eol)), d, crlf, "start", <<>>, <<>>,
                           Append(out, Append(rec, field)))
              ELSE [ok |-> FALSE, recs |-> out]

Decoded == ReadCSV(Stream, EncodeRune(Comma), UseCRLF, "start", <<>>, <<>>, <<>>)

\* The last call was Write(record), and the record it was given.
Wrote == last.op = "Write"

Rec == last.recs[1]

\* Write was given a record of one field.
WroteField == Wrote /\ Len(Rec) = 1

----------------------------------------------------------------------------
(* Claims about the encoding, under SpecEnc.                               *)

\* C1: with ForceDoubleQuotes off, a field whose first character is guarded by
\* an enabled switch is emitted as '"', one space, the field's content with
\* the quoted-field escaping, '"'; a field that no enabled switch matches gets
\* no space and is emitted as the writer without sanitizing emits it.
C1_SanitizedFieldBytes ==
    (WroteField /\ ~opts.ForceDoubleQuotes) =>
        /\ last.err = "nil"
        /\ Stream =
             (IF Guarded(Rec[1], opts)
              THEN <<QUOTE, SPACE>> \o Escaped(Rec[1], UseCRLF) \o <<QUOTE>>
              ELSE IF MustQuote(Rec[1], Comma, NoOpts)
              THEN <<QUOTE>> \o Escaped(Rec[1], UseCRLF) \o <<QUOTE>>
              ELSE Rec[1])
             \o LineEnd(UseCRLF)

\* A guarded field was written under a policy that also leaves another guarded
\* character alone.
C1_Witness ==
    /\ WroteField
    /\ ~opts.ForceDoubleQuotes
    /\ Guarded(Rec[1], opts)
    /\ Len(Rec[1]) = 2
    /\ Rec[1][2] = QUOTE
    /\ ~opts.EscapeCharPlus
    /\ Stream = <<QUOTE, SPACE, Rec[1][1], QUOTE, QUOTE, QUOTE, LF>>

\* The policy of the scenario: only the switch of '=' is on.
OnlyEqual == [NoOpts EXCEPT !.EscapeCharEqual = TRUE]

\* The scenario of C2 was run: ["userId", "=A1", "foo, bar"], ',', LF mode.
C2_Scenario ==
    /\ Wrote
    /\ Rec = ExampleRecord
    /\ opts = OnlyEqual
    /\ Comma = DefaultComma
    /\ ~UseCRLF

\* userId, =A1,"foo, bar"\n
C2_ClaimedLine ==
    <<117, 115, 101, 114, 73, 100, 44, 32, 61, 65, 49, 44,
      34, 102, 111, 111, 44, 32, 98, 97, 114, 34, 10>>

\* userId," =A1","foo, bar"\n
C2_TestedLine ==
    <<117, 115, 101, 114, 73, 100, 44, 34, 32, 61, 65, 49, 34, 44,
      34, 102, 111, 111, 44, 32, 98, 97, 114, 34, 10>>

\* C2 as stated: the scenario emits userId, =A1,"foo, bar" and a line feed, the
\* sanitized second field unquoted.
C2_AsStated == C2_Scenario => Stream = C2_ClaimedLine

\* C2, amended: the scenario emits userId," =A1","foo, bar" and a line feed; the
\* sanitized second field starts with a space and is therefore quoted.
C2_SanitizedFieldIsQuoted == C2_Scenario => (last.err = "nil" /\ Stream = C2_TestedLine)

C2_Witness == C2_Scenario /\ Len(Stream) = Len(C2_TestedLine)

\* What the reader is expected to return for a field under C5 as stated.
C5_Expect(rec) == [i \in 1..Len(rec) |-> Prefixed(rec[i], opts)]

\* C5 as stated: what one Write emitted reads back as exactly one record with
\* the same fields in the same order, each equal to the original but for the
\* sanitizing space.
C5_AsStated ==
    Wrote => (last.err = "nil" /\ Decoded.ok /\ Decoded.recs = <<C5_Expect(Rec)>>)

\* C5, amended: for a record of at least one field, what one Write emitted
\* reads back as exactly one record with the same number of fields in the same
\* order, each equal to the original but for the sanitizing space and, in CRLF
\* mode, for its carriage returns, all of which are dropped.
C5_RoundTrip ==
    (Wrote /\ Len(Rec) >= 1) =>
        /\ last.err = "nil"
        /\ Decoded.ok
        /\ Decoded.recs =
             << [i \in 1..Len(Rec) |->
                    IF UseCRLF THEN WithoutCR(Prefixed(Rec[i], opts))
                    ELSE Prefixed(Rec[i], opts)] >>

\* Two fields, the first sanitized and the second a lone quote, written with a
\* two-byte delimiter in CRLF mode, read back in order.
C5_Witness ==
    /\ Wrote
    /\ Len(Rec) = 2
    /\ Guarded(Rec[1], opts)
    /\ Rec[2] = <<QUOTE>>
    /\ UseCRLF
    /\ Comma = 233
    /\ Decoded.ok
    /\ Decoded.recs = << <<Prefixed(Rec[1], opts), Rec[2]>> >>

\* C8: the sanitized field is quoted exactly when it is not empty and it is
\* `\.`, or ForceDoubleQuotes is on, or it holds the delimiter, a '"', a CR or
\* an LF, or its first code point is white space; a quoted field is emitted
\* between '"' and '"', an unquoted one as it is.
C8_QuotingDecision ==
    WroteField =>
        LET f == Prefixed(Rec[1], opts)
            n == Len(Stream) - Len(LineEnd(UseCRLF))
        IN /\ last.err = "nil"
           /\ MustQuote(f, Comma, opts) => (n >= 2 /\ Stream[1] = QUOTE /\ Stream[n] = QUOTE)
           /\ ~MustQuote(f, Comma, opts) => Stream = f \o LineEnd(UseCRLF)

\* An empty field stayed unquoted under ForceDoubleQuotes.
C8_Witness ==
    /\ WroteField
    /\ Rec[1] = <<>>
    /\ opts.ForceDoubleQuotes
    /\ Comma = 233
    /\ Stream = LineEnd(UseCRLF)

\* C9: a quoted field is emitted as '"', its bytes in order with every '"'
\* doubled, every CR dropped in CRLF mode and kept otherwise, every LF emitted
\* as CR LF in CRLF mode and kept otherwise, every other byte copied, then '"'.
C9_QuotedFieldBytes ==
    (WroteField /\ MustQuote(Prefixed(Rec[1], opts), Comma, opts)) =>
        /\ last.err = "nil"
        /\ Stream = <<QUOTE>> \o Escaped(Prefixed(Rec[1], opts), UseCRLF) \o <<QUOTE>>
                    \o LineEnd(UseCRLF)

\* A field of a CR and an LF was quoted in CRLF mode.
C9_Witness ==
    /\ WroteField
    /\ UseCRLF
    /\ Rec[1] = <<CR, LF>>
    /\ Stream = <<QUOTE, CR, LF, QUOTE, CR, LF>>

\* C10: under EscapeAll or FullSafety no field of the emitted record, as a CSV
\* reader sees it, starts with '=', '+', '-', '@', tab or line feed.
C10_NoFormulaStart ==
    (Wrote /\ opts \in {EscapeAll, FullSafety} /\ Len(Rec) >= 1) =>
        /\ Decoded.ok
        /\ \A r \in 1..Len(Decoded.recs) : \A i \in 1..Len(Decoded.recs[r]) :
              LET f == Decoded.recs[r][i]
              IN f = <<>> \/ f[1] \notin FormulaStarts

----------------------------------------------------------------------------
(* Claims about errors and the sink.                                       *)

\* C3: an error returned by Write is latched: the Error() that follows a Write
\* that returned an error returns an error too.
C3_WriteErrorIsLatched ==
    [][(last.op = "Write" /\ last.err # "nil" /\ last'.op = "Error")
          => last'.err # "nil"]_vars

\* A code point: 0..U+10FFFF without the surrogates.
IsCodePoint(r) == r \in 0..MaxRune /\ r \notin SurrogateMin..SurrogateMax

\* The delimiters section 4.1 rejects.
RejectedDelim(r) == r \in {0, QUOTE, CR, LF, RuneError} \/ ~IsCodePoint(r)

\* C4: every Write returns the invalid-delimiter error exactly when Comma is
\* NUL, '"', CR, LF, U+FFFD or no code point, whatever was written before, and
\* a Write so rejected leaves the buffer and the sink as they were.
C4_InvalidDelimiter ==
    [][last'.op = "Write" =>
          /\ (last'.err = "errInvalidDelim") <=> RejectedDelim(Comma)
          /\ last'.err = "errInvalidDelim" => (buf' = buf /\ sink' = sink)]_vars

\* After a record was written, a Write under U+FFFD was rejected.
C4_Witness ==
    /\ Wrote
    /\ last.err = "errInvalidDelim"
    /\ Comma = RuneError
    /\ Len(Rec) = 2
    /\ Stream = <<97, LF>>

\* C6: the Error() that follows a Flush returns nil with the sink holding
\* exactly the encodings of the records written, in call order, or it returns
\* an error and a write to the sink has failed; a Write or WriteAll returns an
\* I/O error only when a write to the sink has failed; once a write to the sink
\* has failed every Error() returns an error, and no call clears the error.
C6_FlushThenError ==
    [][/\ (last.op = "Flush" /\ last'.op = "Error") =>
             IF last'.err = "nil"
             THEN ~sinkFailed /\ buf = <<>> /\ sink = want
             ELSE sinkFailed
       /\ (last'.op \in {"Write", "WriteAll"} /\ last'.err = "io") => sinkFailed'
       /\ (sinkFailed /\ last'.op = "Error") => last'.err # "nil"
       /\ werr # "nil" => werr' = werr]_vars

\* In CRLF mode the sink failed in the middle of a record, after an earlier
\* record was written; every record was passed to the writer and Error()
\* reports the failure.
C6_Witness ==
    /\ last.op = "Error"
    /\ last.err = "io"
    /\ sinkFailed
    /\ pending = <<>>
    /\ Len(sink) = sinkCap
    /\ Len(buf) > 0
    /\ want # <<>>
    /\ Len(Stream) > Len(want)
    /\ UseCRLF

\* C7: WriteAll(records) returns nil exactly when every Write and the final
\* Flush succeed, and then the buffer is empty and the sink holds everything
\* emitted before followed by the encodings of the records in order; with an
\* invalid delimiter it returns the first Write's error and neither writes nor
\* flushes anything; otherwise it returns the I/O error of the failed write to
\* the sink, and what was emitted is a prefix of the full output.
C7_WriteAll ==
    [][last'.op = "WriteAll" =>
          \A recs \in {last'.recs} : \A all \in {Stream \o EncodeAll(recs)} :
          LET fits == sinkCap < 0 \/ Len(all) <= sinkCap
          IN IF recs # <<>> /\ RejectedDelim(Comma)
             THEN last'.err = "errInvalidDelim" /\ buf' = buf /\ sink' = sink
             ELSE IF fits /\ werr = "nil"
             THEN last'.err = "nil" /\ buf' = <<>> /\ sink' = all /\ ~sinkFailed'
             ELSE /\ last'.err = "io"
                  /\ sinkFailed'
                  /\ IsPrefix(sink' \o buf', all)]_vars

\* WriteAll of two records returned nil with both encodings in the sink.
C7_Witness ==
    /\ last.op = "WriteAll"
    /\ last.err = "nil"
    /\ Len(last.recs) = 2
    /\ last.recs[1] # last.recs[2]
    /\ buf = <<>>
    /\ sink = want
    /\ Len(sink) > BufSize

====
